---- MODULE Spec2Model ----
(***************************************************************************)
(* Signaling relay of appfriends-server: presence registry, call session   *)
(* tracker, relay dispatcher and liveness supervisor.                      *)
(*                                                                         *)
(* Spec models the most complete server variant (src/unnamed/part_001,     *)
(* lines 315-748: User, StateManager and the socket handlers).             *)
(* Time is kept relative: a User carries `idle`, the value of              *)
(* Date.now() - lastPing, and a grace timer the delay it has left. The     *)
(* clock advances to the next due timer or by StaleMs; idle stops counting *)
(* at StaleMs, the only value the code compares it with.                   *)
(* The informational `name` field of a User is left out.                   *)
(***************************************************************************)
EXTENDS Integers, Sequences, FiniteSets, TLC

\* ---------------------------------------------------------------- bounds
NumSockets == 2
MaxPeers == 2

\* ------------------------------------------------------ program constants
StaleMs == 180000
GraceMs == 30000

\* ---------------------------------------------------------------- values
UserOrder == <<"u1", "u2", "u3">>
UserIds == {UserOrder[i] : i \in 1..Len(UserOrder)}
SocketIds == 1..NumSockets
NoId == "undefined"
NoSocket == 0
Payloads == {"sdp"}

\* what a client may put in a register payload ("" is a missing field, "admin"
\* a role the server does not know)
RegTypes == {"user", "confident", "admin", ""}

NoUser ==
    [socketId |-> NoSocket, userType |-> "", isAvailable |-> FALSE,
     currentCallId |-> NoId, idle |-> 0, isInCall |-> FALSE]

NoTimer == [userId |-> NoId, left |-> 0, since |-> ""]

VARIABLES
    users,          \* StateManager.users: userId -> User
    sockets,        \* StateManager.sockets: socketId -> userId
    pingIntervals,  \* StateManager.pingIntervals: socketId -> userId swept
    timers,         \* pending grace timers, by the socket whose disconnect set them
    conn,           \* socket.io connection state of each socket id
    out,            \* the events emitted by the last step, in order
    lastEv,         \* the event the last step handled
    recorded,       \* whether the last step was recorded
    pre,            \* the tables as they were before the recorded step
    seen,           \* how many peer ids register events have named so far
    connectedUsers  \* the first server variant's Map, as its entries in order

vars == <<users, sockets, pingIntervals, timers, conn, out, lastEv, recorded, pre,
          seen, connectedUsers>>

registry == <<users, sockets, pingIntervals, timers>>

\* ------------------------------------------------------------------ User
User(socketId, userType) ==
    [socketId |-> socketId, userType |-> userType, isAvailable |-> FALSE,
     currentCallId |-> NoId, idle |-> 0, isInCall |-> FALSE]

updateLastPing(user) == [user EXCEPT !.idle = 0]

\* variants of isActive: one that never finds a User stale (the staleness test
\* left out, as in the earlier server variants), one with the comparison turned
isActiveAlways(user) == TRUE

isActiveInverted(user) == user.idle >= StaleMs

isActive(user) == user.idle < StaleMs

\* ---------------------------------------------------------- StateManager
\* A registry value st is [users, sockets, pingIntervals].
Registry == [users |-> users, sockets |-> sockets, pingIntervals |-> pingIntervals]

clearPingInterval(st, socketId) ==
    IF socketId \in SocketIds /\ st.pingIntervals[socketId] # NoId
    THEN [st EXCEPT !.pingIntervals[socketId] = NoId]
    ELSE st

setupPingInterval(st, socketId, userId) ==
    [clearPingInterval(st, socketId) EXCEPT !.pingIntervals[socketId] = userId]

\* variant of addUser: a userId that is already registered keeps the socketId
\* of its first registration
addUserKeepSocket(st, userId, socketId, userType) ==
    setupPingInterval(
        [st EXCEPT !.users[userId] =
                       IF st.users[userId] # NoUser
                       THEN [User(socketId, userType) EXCEPT
                                !.socketId = st.users[userId].socketId]
                       ELSE User(socketId, userType),
                   !.sockets[socketId] = userId],
        socketId, userId)

\* variant of addUser: an existing User is kept and moved to the new socket
addUserKeepState(st, userId, socketId, userType) ==
    setupPingInterval(
        [st EXCEPT !.users[userId] =
                       IF st.users[userId] # NoUser
                       THEN [st.users[userId] EXCEPT !.socketId = socketId,
                                                     !.userType = userType,
                                                     !.idle = 0]
                       ELSE User(socketId, userType),
                   !.sockets[socketId] = userId],
        socketId, userId)

addUser(st, userId, socketId, userType) ==
    setupPingInterval(
        [st EXCEPT !.users[userId] = User(socketId, userType),
                   !.sockets[socketId] = userId],
        socketId, userId)

removeUser(st, userId) ==
    IF userId \in UserIds /\ st.users[userId] # NoUser
    THEN LET sid == st.users[userId].socketId
             cleared == clearPingInterval(st, sid)
         IN [cleared EXCEPT !.sockets[sid] = NoId, !.users[userId] = NoUser]
    ELSE st

getUser(st, userId) ==
    IF userId \in UserIds THEN st.users[userId] ELSE NoUser

getUserBySocket(st, socketId) ==
    LET userId == st.sockets[socketId]
    IN IF userId # NoId THEN getUser(st, userId) ELSE NoUser

\* Array.from(users.entries()).filter(...).map(...): the entries are visited in
\* the order of UserOrder, and each kept entry yields its userId
RECURSIVE filterIds(_, _, _)
filterIds(st, ids, i) ==
    IF i > Len(ids) THEN <<>>
    ELSE LET user == st.users[ids[i]]
             rest == filterIds(st, ids, i + 1)
         IN IF user # NoUser /\ user.userType = "confident"
               /\ user.isAvailable /\ isActive(user)
            THEN <<ids[i]>> \o rest
            ELSE rest

getAvailableConfidents(st) == filterIds(st, UserOrder, 1)

\* variant of startCall: only the first peer is bound
startCallOneSided(st, userId1, userId2) ==
    IF getUser(st, userId1) # NoUser /\ getUser(st, userId2) # NoUser
    THEN [st EXCEPT !.users[userId1].isInCall = TRUE,
                    !.users[userId1].currentCallId = userId2]
    ELSE st

startCall(st, userId1, userId2) ==
    IF getUser(st, userId1) # NoUser /\ getUser(st, userId2) # NoUser
    THEN LET s1 == [st EXCEPT !.users[userId1].isInCall = TRUE]
             s2 == [s1 EXCEPT !.users[userId2].isInCall = TRUE]
             s3 == [s2 EXCEPT !.users[userId1].currentCallId = userId2]
         IN [s3 EXCEPT !.users[userId2].currentCallId = userId1]
    ELSE st

\* variants of endCall: one that leaves the partner's currentCallId set, one that
\* unbinds every peer whose currentCallId is userId instead of testing userId's own
endCallKeepPartner(st, userId) ==
    IF getUser(st, userId) # NoUser /\ st.users[userId].currentCallId # NoId
    THEN LET other == st.users[userId].currentCallId
             s1 == IF getUser(st, other) # NoUser
                   THEN [st EXCEPT !.users[other].isInCall = FALSE]
                   ELSE st
         IN [s1 EXCEPT !.users[userId].isInCall = FALSE,
                       !.users[userId].currentCallId = NoId]
    ELSE st

endCallByScan(st, userId) ==
    [st EXCEPT !.users =
        [u \in UserIds |->
            IF st.users[u] # NoUser /\ (u = userId \/ st.users[u].currentCallId = userId)
            THEN [st.users[u] EXCEPT !.isInCall = FALSE, !.currentCallId = NoId]
            ELSE st.users[u]]]

endCall(st, userId) ==
    IF getUser(st, userId) # NoUser /\ st.users[userId].currentCallId # NoId
    THEN LET other == st.users[userId].currentCallId
             s1 == IF getUser(st, other) # NoUser
                   THEN [st EXCEPT !.users[other].isInCall = FALSE,
                                   !.users[other].currentCallId = NoId]
                   ELSE st
         IN [s1 EXCEPT !.users[userId].isInCall = FALSE,
                       !.users[userId].currentCallId = NoId]
    ELSE st

\* ------------------------------------------------------- emitted events
\* mode "to": socket.emit / io.to(id).emit, addressed to socket `to`;
\* mode "all": io.emit; mode "except": socket.broadcast.emit (all but `to`).
Msg(ev, mode, to, id, val) ==
    [ev |-> ev, mode |-> mode, to |-> to, id |-> id, val |-> val]

Ev(type, socket, id, arg) ==
    [type |-> type, socket |-> socket, id |-> id, arg |-> arg]

\* out, lastEv and pre are observation variables. A run records one step, its
\* last: an unrecorded step leaves them empty, a recorded step ends the run
\* (every action starts with ~recorded).
NoEv == Ev("", NoSocket, NoId, "")

Snapshot ==
    [users |-> users, sockets |-> sockets, pingIntervals |-> pingIntervals,
     timers |-> timers, connectedUsers |-> connectedUsers]

NoSnapshot ==
    [users |-> [u \in UserIds |-> NoUser], sockets |-> [s \in SocketIds |-> NoId],
     pingIntervals |-> [s \in SocketIds |-> NoId],
     timers |-> [s \in SocketIds |-> NoTimer], connectedUsers |-> <<>>]

Record(ev, msgs) ==
    \E r \in BOOLEAN :
        /\ recorded' = r
        /\ lastEv' = IF r THEN ev ELSE NoEv
        /\ out' = IF r THEN msgs ELSE <<>>
        /\ pre' = IF r THEN Snapshot ELSE NoSnapshot

SetRegistry(st) ==
    /\ users' = st.users
    /\ sockets' = st.sockets
    /\ pingIntervals' = st.pingIntervals

Init ==
    /\ users = [u \in UserIds |-> NoUser]
    /\ sockets = [s \in SocketIds |-> NoId]
    /\ pingIntervals = [s \in SocketIds |-> NoId]
    /\ timers = [s \in SocketIds |-> NoTimer]
    /\ conn = [s \in SocketIds |-> "new"]
    /\ out = <<>>
    /\ lastEv = NoEv
    /\ recorded = FALSE
    /\ pre = NoSnapshot
    /\ seen = 0
    /\ connectedUsers = <<>>

\* io.on('connection'): socket ids are fresh, so they are handed out in order
Connect(s) ==
    /\ ~recorded
    /\ conn[s] = "new"
    /\ \A r \in SocketIds : r < s => conn[r] # "new"
    /\ conn' = [conn EXCEPT ![s] = "open"]
    /\ Record(Ev("connection", s, NoId, ""), <<>>)
    /\ UNCHANGED <<users, sockets, pingIntervals, timers, seen>>
    /\ UNCHANGED connectedUsers

\* The clock is event driven: it advances to the next due grace timer or, with
\* none pending, by the staleness threshold.
Min(a, b) == IF a < b THEN a ELSE b

Pending == {s \in SocketIds : timers[s] # NoTimer}

Delay ==
    IF Pending = {} THEN StaleMs
    ELSE LET first == CHOOSE s \in Pending : \A r \in Pending : timers[s].left <= timers[r].left
         IN timers[first].left

Tick ==
    /\ ~recorded
    /\ Delay > 0
    /\ users' = [u \in UserIds |->
                    IF users[u] = NoUser THEN NoUser
                    ELSE [users[u] EXCEPT !.idle = Min(@ + Delay, StaleMs)]]
    /\ timers' = [s \in SocketIds |->
                    IF timers[s] = NoTimer THEN NoTimer
                    ELSE [timers[s] EXCEPT !.left = @ - Delay]]
    /\ Record(Ev("tick", NoSocket, NoId, ""), <<>>)
    /\ UNCHANGED <<sockets, pingIntervals, conn, seen>>
    /\ UNCHANGED connectedUsers

\* The `since` field of a pending grace timer remembers what its userId did since
\* the disconnect that set it: "" (nothing), "ping" or "register".
MarkTimers(userId, what) ==
    [r \in SocketIds |->
        IF timers[r] # NoTimer /\ timers[r].userId = userId
           /\ timers[r].since # "register"
        THEN [timers[r] EXCEPT !.since = what]
        ELSE timers[r]]

\* socket.conn.on('packet') with packet.type === 'ping'
Ping(s) ==
    /\ ~recorded
    /\ conn[s] = "open"
    /\ LET user == getUserBySocket(Registry, s)
           userId == sockets[s]
       IN IF user # NoUser
          THEN /\ users' = [users EXCEPT ![userId] = updateLastPing(user)]
               /\ timers' = MarkTimers(userId, "ping")
          ELSE UNCHANGED <<users, timers>>
    /\ Record(Ev("ping", s, NoId, ""), <<>>)
    /\ UNCHANGED <<sockets, pingIntervals, conn, seen>>
    /\ UNCHANGED connectedUsers

\* Peer ids are opaque: what a register payload may name is an id seen before,
\* the next unused one, or "" (a missing field).
NewId == IF seen < MaxPeers THEN UserOrder[seen + 1] ELSE ""

RegIds == {UserOrder[i] : i \in 1..seen} \cup {NewId, ""}

\* socket.on('register')
Register(s, userId, userType) ==
    /\ ~recorded
    /\ conn[s] = "open"
    /\ seen' = IF userId # "" /\ userId = NewId THEN seen + 1 ELSE seen
    /\ IF userId = "" \/ userType = ""
       THEN /\ Record(Ev("register", s, userId, userType),
                      <<Msg("error", "to", s, NoId, "REGISTRATION_ERROR")>>)
            /\ UNCHANGED <<users, sockets, pingIntervals, timers>>
       ELSE LET st == addUser(Registry, userId, s, userType)
            IN /\ SetRegistry(st)
               /\ timers' = MarkTimers(userId, "register")
               /\ Record(Ev("register", s, userId, userType),
                    <<Msg("registered", "to", s, userId, userType)>>
                    \o (IF userType = "user"
                        THEN <<Msg("available-confidents", "to", s, NoId,
                                   getAvailableConfidents(st))>>
                        ELSE <<>>)
                    \o (IF userType = "confident"
                        THEN <<Msg("confident-status-update", "except", s, userId,
                                   st.users[userId].isAvailable)>>
                        ELSE <<>>))
    /\ UNCHANGED conn
    /\ UNCHANGED connectedUsers

\* the error event of update-availability: its type and the thrown message
\* (written without its accents)
AvailabilityError(s, message) ==
    Msg("error", "to", s, NoId, <<"AVAILABILITY_UPDATE_ERROR", message>>)

\* variants of the update-availability handler: one that notifies with
\* socket.broadcast.emit (every socket but the sender's), one without the role test
UpdateAvailabilityOthersOnly(s, available) ==
    /\ ~recorded
    /\ conn[s] = "open"
    /\ LET user == getUserBySocket(Registry, s)
           userId == sockets[s]
           ev == Ev("update-availability", s, NoId, available)
       IN IF user = NoUser
          THEN /\ Record(ev, <<AvailabilityError(s, "Utilisateur non trouve")>>)
               /\ UNCHANGED users
          ELSE IF user.userType # "confident"
          THEN /\ Record(ev, <<AvailabilityError(s,
                    "Seuls les confidents peuvent modifier leur disponibilite")>>)
               /\ UNCHANGED users
          ELSE /\ users' = [users EXCEPT ![userId].isAvailable = available]
               /\ Record(ev,
                    <<Msg("confident-status-update", "except", s, userId, available),
                      Msg("availability-updated", "to", s, NoId, available)>>)
    /\ UNCHANGED <<sockets, pingIntervals, timers, conn, seen>>
    /\ UNCHANGED connectedUsers

UpdateAvailabilityAnyRole(s, available) ==
    /\ ~recorded
    /\ conn[s] = "open"
    /\ LET user == getUserBySocket(Registry, s)
           userId == sockets[s]
           ev == Ev("update-availability", s, NoId, available)
       IN IF user = NoUser
          THEN /\ Record(ev, <<AvailabilityError(s, "Utilisateur non trouve")>>)
               /\ UNCHANGED users
          ELSE IF FALSE
          THEN /\ Record(ev, <<AvailabilityError(s,
                    "Seuls les confidents peuvent modifier leur disponibilite")>>)
               /\ UNCHANGED users
          ELSE /\ users' = [users EXCEPT ![userId].isAvailable = available]
               /\ Record(ev,
                    <<Msg("confident-status-update", "all", NoSocket, userId, available),
                      Msg("availability-updated", "to", s, NoId, available)>>)
    /\ UNCHANGED <<sockets, pingIntervals, timers, conn, seen>>
    /\ UNCHANGED connectedUsers

\* socket.on('update-availability')
UpdateAvailability(s, available) ==
    /\ ~recorded
    /\ conn[s] = "open"
    /\ LET user == getUserBySocket(Registry, s)
           userId == sockets[s]
           ev == Ev("update-availability", s, NoId, available)
       IN IF user = NoUser
          THEN /\ Record(ev, <<AvailabilityError(s, "Utilisateur non trouve")>>)
               /\ UNCHANGED users
          ELSE IF user.userType # "confident"
          THEN /\ Record(ev, <<AvailabilityError(s,
                    "Seuls les confidents peuvent modifier leur disponibilite")>>)
               /\ UNCHANGED users
          ELSE /\ users' = [users EXCEPT ![userId].isAvailable = available]
               /\ Record(ev,
                    <<Msg("confident-status-update", "all", NoSocket, userId, available),
                      Msg("availability-updated", "to", s, NoId, available)>>)
    /\ UNCHANGED <<sockets, pingIntervals, timers, conn, seen>>
    /\ UNCHANGED connectedUsers

\* socket.on('webrtc-offer')
WebrtcOffer(s, targetId, offer) ==
    /\ ~recorded
    /\ conn[s] = "open"
    /\ LET fromUserId == sockets[s]
           targetUser == users[targetId]
           ev == Ev("webrtc-offer", s, targetId, offer)
       IN IF targetUser = NoUser
          THEN /\ Record(ev, <<Msg("error", "to", s, NoId, "WEBRTC_OFFER_ERROR")>>)
               /\ UNCHANGED users
          ELSE /\ users' = startCall(Registry, fromUserId, targetId).users
               /\ Record(ev, <<Msg("webrtc-offer", "to", targetUser.socketId,
                                   fromUserId, offer)>>)
    /\ UNCHANGED <<sockets, pingIntervals, timers, conn, seen>>
    /\ UNCHANGED connectedUsers

\* variant of the answer and candidate handlers: the call is started as the offer
\* handler starts it
ForwardStartsCall(s, name, targetId, payload) ==
    /\ ~recorded
    /\ conn[s] = "open"
    /\ LET fromUserId == sockets[s]
           targetUser == users[targetId]
           ev == Ev(name, s, targetId, payload)
       IN IF targetUser = NoUser
          THEN /\ Record(ev, <<Msg("error", "to", s, NoId,
                                   IF name = "webrtc-answer" THEN "WEBRTC_ANSWER_ERROR"
                                                             ELSE "ICE_CANDIDATE_ERROR")>>)
               /\ UNCHANGED users
          ELSE /\ Record(ev, <<Msg(name, "to", targetUser.socketId, fromUserId, payload)>>)
               /\ users' = startCall(Registry, fromUserId, targetId).users
    /\ UNCHANGED <<sockets, pingIntervals, timers, conn, seen>>
    /\ UNCHANGED connectedUsers

\* socket.on('webrtc-answer') and socket.on('ice-candidate'): the same code but
\* for the event's name and its error type
Forward(s, name, targetId, payload) ==
    /\ ~recorded
    /\ conn[s] = "open"
    /\ LET fromUserId == sockets[s]
           targetUser == users[targetId]
           ev == Ev(name, s, targetId, payload)
       IN IF targetUser = NoUser
          THEN Record(ev, <<Msg("error", "to", s, NoId,
                                IF name = "webrtc-answer" THEN "WEBRTC_ANSWER_ERROR"
                                                          ELSE "ICE_CANDIDATE_ERROR")>>)
          ELSE Record(ev, <<Msg(name, "to", targetUser.socketId, fromUserId, payload)>>)
    /\ UNCHANGED <<users, sockets, pingIntervals, timers, conn, seen>>
    /\ UNCHANGED connectedUsers

WebrtcAnswer(s, targetId, answer) == Forward(s, "webrtc-answer", targetId, answer)

IceCandidate(s, targetId, candidate) == Forward(s, "ice-candidate", targetId, candidate)

\* variant of the end-call handler: the sender's call is ended before the target
\* is looked up
EndCallEager(s, targetId) ==
    /\ ~recorded
    /\ conn[s] = "open"
    /\ LET fromUserId == sockets[s]
           targetUser == users[targetId]
           ev == Ev("end-call", s, targetId, "")
           st == endCall(Registry, fromUserId)
       IN IF targetUser = NoUser
          THEN /\ Record(ev, <<Msg("error", "to", s, NoId, "END_CALL_ERROR")>>)
               /\ users' = st.users
          ELSE /\ Record(ev, <<Msg("call-ended", "to", targetUser.socketId,
                                   fromUserId, "")>>)
               /\ users' = endCall(st, targetId).users
    /\ UNCHANGED <<sockets, pingIntervals, timers, conn, seen>>
    /\ UNCHANGED connectedUsers

\* variant of the end-call handler: only the sender's call is ended
EndCallSenderOnly(s, targetId) ==
    /\ ~recorded
    /\ conn[s] = "open"
    /\ LET fromUserId == sockets[s]
           targetUser == users[targetId]
           ev == Ev("end-call", s, targetId, "")
       IN IF targetUser = NoUser
          THEN /\ Record(ev, <<Msg("error", "to", s, NoId, "END_CALL_ERROR")>>)
               /\ UNCHANGED users
          ELSE /\ Record(ev, <<Msg("call-ended", "to", targetUser.socketId,
                                   fromUserId, "")>>)
               /\ users' = endCall(Registry, fromUserId).users
    /\ UNCHANGED <<sockets, pingIntervals, timers, conn, seen>>
    /\ UNCHANGED connectedUsers

\* socket.on('end-call')
EndCall(s, targetId) ==
    /\ ~recorded
    /\ conn[s] = "open"
    /\ LET fromUserId == sockets[s]
           targetUser == users[targetId]
           ev == Ev("end-call", s, targetId, "")
       IN IF targetUser = NoUser
          THEN /\ Record(ev, <<Msg("error", "to", s, NoId, "END_CALL_ERROR")>>)
               /\ UNCHANGED users
          ELSE /\ Record(ev, <<Msg("call-ended", "to", targetUser.socketId,
                                   fromUserId, "")>>)
               /\ users' = endCall(endCall(Registry, fromUserId), targetId).users
    /\ UNCHANGED <<sockets, pingIntervals, timers, conn, seen>>
    /\ UNCHANGED connectedUsers

\* variant of the disconnect handler: no grace window, the peer is removed at once
DisconnectNoGrace(s) ==
    /\ ~recorded
    /\ conn[s] = "open"
    /\ conn' = [conn EXCEPT ![s] = "closed"]
    /\ LET userId == sockets[s]
           user == getUser(Registry, userId)
           ev == Ev("disconnect", s, userId, "")
       IN IF userId = NoId \/ user = NoUser
          THEN /\ Record(ev, <<>>)
               /\ UNCHANGED <<users, sockets, pingIntervals, timers>>
          ELSE /\ Record(ev, IF user.userType = "confident"
                             THEN <<Msg("confident-disconnected", "all", NoSocket,
                                        userId, "")>>
                             ELSE <<>>)
               /\ SetRegistry(removeUser(Registry, userId))
               /\ UNCHANGED timers
    /\ UNCHANGED seen
    /\ UNCHANGED connectedUsers

\* variant of the disconnect handler: the peer is removed without a broadcast
DisconnectNoBroadcast(s) ==
    /\ ~recorded
    /\ conn[s] = "open"
    /\ conn' = [conn EXCEPT ![s] = "closed"]
    /\ LET userId == sockets[s]
           user == getUser(Registry, userId)
           ev == Ev("disconnect", s, userId, "")
       IN IF userId = NoId \/ user = NoUser
          THEN /\ Record(ev, <<>>)
               /\ UNCHANGED <<users, sockets, pingIntervals, timers>>
          ELSE IF user.isInCall
          THEN /\ timers' = [timers EXCEPT ![s] =
                               [userId |-> userId, left |-> GraceMs, since |-> ""]]
               /\ Record(ev, <<>>)
               /\ UNCHANGED <<users, sockets, pingIntervals>>
          ELSE /\ Record(ev, <<>>)
               /\ SetRegistry(removeUser(Registry, userId))
               /\ UNCHANGED timers
    /\ UNCHANGED seen
    /\ UNCHANGED connectedUsers

\* socket.on('disconnect')
Disconnect(s) ==
    /\ ~recorded
    /\ conn[s] = "open"
    /\ conn' = [conn EXCEPT ![s] = "closed"]
    /\ LET userId == sockets[s]
           user == getUser(Registry, userId)
           ev == Ev("disconnect", s, userId, "")
       IN IF userId = NoId \/ user = NoUser
          THEN /\ Record(ev, <<>>)
               /\ UNCHANGED <<users, sockets, pingIntervals, timers>>
          ELSE IF user.isInCall
          THEN /\ timers' = [timers EXCEPT ![s] =
                               [userId |-> userId, left |-> GraceMs, since |-> ""]]
               /\ Record(ev, <<>>)
               /\ UNCHANGED <<users, sockets, pingIntervals>>
          ELSE /\ Record(ev, IF user.userType = "confident"
                             THEN <<Msg("confident-disconnected", "all", NoSocket,
                                        userId, "")>>
                             ELSE <<>>)
               /\ SetRegistry(removeUser(Registry, userId))
               /\ UNCHANGED timers
    /\ UNCHANGED seen
    /\ UNCHANGED connectedUsers

\* the setTimeout callback of socket.on('disconnect'), GraceMs after it
GraceTimer(s) ==
    /\ ~recorded
    /\ timers[s] # NoTimer
    /\ timers[s].left = 0
    /\ timers' = [timers EXCEPT ![s] = NoTimer]
    /\ LET userId == timers[s].userId
           updatedUser == users[userId]
           ev == Ev("grace-timer", s, userId, timers[s].since)
       IN IF updatedUser # NoUser /\ ~isActive(updatedUser) /\ ~updatedUser.isInCall
          THEN /\ Record(ev, IF updatedUser.userType = "confident"
                             THEN <<Msg("confident-disconnected", "all", NoSocket,
                                        userId, "")>>
                             ELSE <<>>)
               /\ SetRegistry(removeUser(Registry, userId))
          ELSE /\ Record(ev, <<>>)
               /\ UNCHANGED <<users, sockets, pingIntervals>>
    /\ UNCHANGED <<conn, seen>>
    /\ UNCHANGED connectedUsers

\* variant of the interval callback: a stale User is removed whether or not it is
\* in a call
SweepInCall(s) ==
    /\ ~recorded
    /\ pingIntervals[s] # NoId
    /\ Record(Ev("sweep", s, pingIntervals[s], ""), <<>>)
    /\ LET userId == pingIntervals[s]
           user == users[userId]
       IN IF user # NoUser /\ ~isActive(user)
          THEN SetRegistry(removeUser(Registry, userId))
          ELSE UNCHANGED <<users, sockets, pingIntervals>>
    /\ UNCHANGED <<timers, conn, seen>>
    /\ UNCHANGED connectedUsers

\* the setInterval callback of setupPingInterval, for the interval kept under s
Sweep(s) ==
    /\ ~recorded
    /\ pingIntervals[s] # NoId
    /\ Record(Ev("sweep", s, pingIntervals[s], ""), <<>>)
    /\ LET userId == pingIntervals[s]
           user == users[userId]
       IN IF user # NoUser /\ ~isActive(user) /\ ~user.isInCall
          THEN SetRegistry(removeUser(Registry, userId))
          ELSE UNCHANGED <<users, sockets, pingIntervals>>
    /\ UNCHANGED <<timers, conn, seen>>
    /\ UNCHANGED connectedUsers

Next ==
    \/ \E s \in SocketIds : Connect(s)
    \/ Tick
    \/ \E s \in SocketIds : Ping(s)
    \/ \E s \in SocketIds, userId \in RegIds, userType \in RegTypes :
          Register(s, userId, userType)
    \/ \E s \in SocketIds, available \in BOOLEAN : UpdateAvailability(s, available)
    \/ \E s \in SocketIds, targetId \in UserIds, offer \in Payloads :
          WebrtcOffer(s, targetId, offer)
    \/ \E s \in SocketIds, targetId \in UserIds, answer \in Payloads :
          WebrtcAnswer(s, targetId, answer)
    \/ \E s \in SocketIds, targetId \in UserIds, candidate \in Payloads :
          IceCandidate(s, targetId, candidate)
    \/ \E s \in SocketIds, targetId \in UserIds : EndCall(s, targetId)
    \/ \E s \in SocketIds : Disconnect(s)
    \/ \E s \in SocketIds : GraceTimer(s)
    \/ \E s \in SocketIds : Sweep(s)

Spec == Init /\ [][Next]_vars

\* The server's behaviours proper, without the observation of a last step. Time
\* passes, a due setTimeout callback runs and a setInterval callback keeps
\* running: the event loop guarantees that much and no more.
NextLive ==
    \/ \E s \in SocketIds : Connect(s) /\ ~recorded'
    \/ Tick /\ ~recorded'
    \/ \E s \in SocketIds : Ping(s) /\ ~recorded'
    \/ \E s \in SocketIds, userId \in RegIds, userType \in RegTypes :
          Register(s, userId, userType) /\ ~recorded'
    \/ \E s \in SocketIds, available \in BOOLEAN :
          UpdateAvailability(s, available) /\ ~recorded'
    \/ \E s \in SocketIds, targetId \in UserIds, offer \in Payloads :
          WebrtcOffer(s, targetId, offer) /\ ~recorded'
    \/ \E s \in SocketIds, targetId \in UserIds, answer \in Payloads :
          WebrtcAnswer(s, targetId, answer) /\ ~recorded'
    \/ \E s \in SocketIds, targetId \in UserIds, candidate \in Payloads :
          IceCandidate(s, targetId, candidate) /\ ~recorded'
    \/ \E s \in SocketIds, targetId \in UserIds : EndCall(s, targetId) /\ ~recorded'
    \/ \E s \in SocketIds : Disconnect(s) /\ ~recorded'
    \/ \E s \in SocketIds : GraceTimer(s) /\ ~recorded'
    \/ \E s \in SocketIds : Sweep(s) /\ ~recorded'

Fairness ==
    /\ WF_vars(Tick /\ ~recorded')
    /\ \A s \in SocketIds : WF_vars(GraceTimer(s) /\ ~recorded')
    /\ \A s \in SocketIds : WF_vars(Sweep(s) /\ ~recorded')

SpecLive == Init /\ [][NextLive]_vars /\ Fairness

(***************************************************************************)
(* The first server variant (src/unnamed/part_000), the one that handles   *)
(* call-request and call-response. Its state is the Map connectedUsers,    *)
(* kept here as the sequence of its entries in insertion order.            *)
(***************************************************************************)
Entry(userId, socketId, userType) ==
    [userId |-> userId, socketId |-> socketId, userType |-> userType,
     isAvailable |-> (userType = "user")]

NoEntry == [userId |-> NoId, socketId |-> NoSocket, userType |-> "", isAvailable |-> FALSE]

\* connectedUsers.get(userId)
RECURSIVE mapGet(_, _, _)
mapGet(map, userId, i) ==
    IF i > Len(map) THEN NoEntry
    ELSE IF map[i].userId = userId THEN map[i]
    ELSE mapGet(map, userId, i + 1)

\* connectedUsers.set(userId, entry): an existing key keeps its place
mapSet(map, entry) ==
    IF \E i \in 1..Len(map) : map[i].userId = entry.userId
    THEN [i \in 1..Len(map) |-> IF map[i].userId = entry.userId THEN entry ELSE map[i]]
    ELSE Append(map, entry)

\* connectedUsers.delete(userId)
mapDelete(map, userId) == SelectSeq(map, LAMBDA e : e.userId # userId)

RECURSIVE getUserIdBySocketIdFrom(_, _, _)
getUserIdBySocketIdFrom(map, socketId, i) ==
    IF i > Len(map) THEN NoId
    ELSE IF map[i].socketId = socketId THEN map[i].userId
    ELSE getUserIdBySocketIdFrom(map, socketId, i + 1)

getUserIdBySocketId(map, socketId) == getUserIdBySocketIdFrom(map, socketId, 1)

\* the userIds sendAvailableConfidents sends
RECURSIVE availableConfidents(_, _)
availableConfidents(map, i) ==
    IF i > Len(map) THEN <<>>
    ELSE (IF map[i].userType = "confident" /\ map[i].isAvailable
          THEN <<map[i].userId>> ELSE <<>>) \o availableConfidents(map, i + 1)

sendAvailableConfidents(map, s) ==
    <<Msg("available-confidents", "to", s, NoId, availableConfidents(map, 1))>>

broadcastConfidentStatus(map, confidentId) ==
    LET confidentData == mapGet(map, confidentId, 1)
    IN IF confidentData # NoEntry
       THEN <<Msg("confident-status-update", "all", NoSocket, confidentId,
                  confidentData.isAvailable)>>
       ELSE <<>>

V1Types == {"user", "confident"}
V1Ids == {UserOrder[i] : i \in 1..Min(seen + 1, MaxPeers)}

\* socket.on('register')
RegisterV1(s, userId, userType) ==
    /\ ~recorded
    /\ conn[s] = "open"
    /\ seen' = IF userId = NewId THEN seen + 1 ELSE seen
    /\ LET map == mapSet(connectedUsers, Entry(userId, s, userType))
       IN /\ connectedUsers' = map
          /\ Record(Ev("register", s, userId, userType),
                    IF userType = "confident"
                    THEN broadcastConfidentStatus(map, userId)
                    ELSE sendAvailableConfidents(map, s))
    /\ UNCHANGED conn
    /\ UNCHANGED registry

\* socket.on('update-availability')
UpdateAvailabilityV1(s, available) ==
    /\ ~recorded
    /\ conn[s] = "open"
    /\ LET userId == getUserIdBySocketId(connectedUsers, s)
           userData == mapGet(connectedUsers, userId, 1)
           ev == Ev("update-availability", s, NoId, available)
       IN IF userId # NoId /\ userData # NoEntry /\ userData.userType = "confident"
          THEN LET map == mapSet(connectedUsers, [userData EXCEPT !.isAvailable = available])
               IN /\ connectedUsers' = map
                  /\ Record(ev, broadcastConfidentStatus(map, userId))
          ELSE /\ Record(ev, <<>>)
               /\ UNCHANGED connectedUsers
    /\ UNCHANGED <<conn, seen>>
    /\ UNCHANGED registry

\* variant of the call-request handler: the target's availability is not tested
CallRequestAnyTarget(s, targetConfidentId) ==
    /\ ~recorded
    /\ conn[s] = "open"
    /\ LET confidentData == mapGet(connectedUsers, targetConfidentId, 1)
           ev == Ev("call-request", s, targetConfidentId, "")
       IN IF confidentData # NoEntry
          THEN Record(ev, <<Msg("incoming-call", "to", confidentData.socketId,
                                getUserIdBySocketId(connectedUsers, s), "")>>)
          ELSE Record(ev, <<Msg("call-failed", "to", s, NoId, "Confident non disponible")>>)
    /\ UNCHANGED <<conn, seen, connectedUsers>>
    /\ UNCHANGED registry

\* socket.on('call-request')
CallRequest(s, targetConfidentId) ==
    /\ ~recorded
    /\ conn[s] = "open"
    /\ LET confidentData == mapGet(connectedUsers, targetConfidentId, 1)
           ev == Ev("call-request", s, targetConfidentId, "")
       IN IF confidentData # NoEntry /\ confidentData.isAvailable
          THEN Record(ev, <<Msg("incoming-call", "to", confidentData.socketId,
                                getUserIdBySocketId(connectedUsers, s), "")>>)
          ELSE Record(ev, <<Msg("call-failed", "to", s, NoId, "Confident non disponible")>>)
    /\ UNCHANGED <<conn, seen, connectedUsers>>
    /\ UNCHANGED registry

\* socket.on('call-response')
CallResponse(s, callerId, accepted) ==
    /\ ~recorded
    /\ conn[s] = "open"
    /\ LET callerData == mapGet(connectedUsers, callerId, 1)
           ev == Ev("call-response", s, callerId, accepted)
       IN IF callerData # NoEntry
          THEN Record(ev, <<Msg("call-answered", "to", callerData.socketId,
                                getUserIdBySocketId(connectedUsers, s), accepted)>>)
          ELSE Record(ev, <<>>)
    /\ UNCHANGED <<conn, seen, connectedUsers>>
    /\ UNCHANGED registry

\* socket.on('disconnect')
DisconnectV1(s) ==
    /\ ~recorded
    /\ conn[s] = "open"
    /\ conn' = [conn EXCEPT ![s] = "closed"]
    /\ LET userId == getUserIdBySocketId(connectedUsers, s)
           userData == mapGet(connectedUsers, userId, 1)
           ev == Ev("disconnect", s, userId, "")
       IN IF userId # NoId
          THEN /\ Record(ev, IF userData # NoEntry /\ userData.userType = "confident"
                             THEN <<Msg("confident-disconnected", "all", NoSocket,
                                        userId, "")>>
                             ELSE <<>>)
               /\ connectedUsers' = mapDelete(connectedUsers, userId)
          ELSE /\ Record(ev, <<>>)
               /\ UNCHANGED connectedUsers
    /\ UNCHANGED seen
    /\ UNCHANGED registry

NextV1 ==
    \/ \E s \in SocketIds : Connect(s)
    \/ \E s \in SocketIds, userId \in V1Ids, userType \in V1Types :
          RegisterV1(s, userId, userType)
    \/ \E s \in SocketIds, available \in BOOLEAN : UpdateAvailabilityV1(s, available)
    \/ \E s \in SocketIds, targetConfidentId \in UserIds : CallRequest(s, targetConfidentId)
    \/ \E s \in SocketIds, callerId \in UserIds, accepted \in BOOLEAN :
          CallResponse(s, callerId, accepted)
    \/ \E s \in SocketIds : DisconnectV1(s)

SpecV1 == Init /\ [][NextV1]_vars

(***************************************************************************)
(* The claims. A recorded step leaves the event it handled in lastEv, what *)
(* it emitted in out and the tables it started from in pre, so a claim     *)
(* about one handler is a predicate on the state after the step.           *)
(***************************************************************************)
Registered(u) == users[u] # NoUser

RegisteredBefore(u) == pre.users[u] # NoUser

RelayIn == {"webrtc-offer", "webrtc-answer", "ice-candidate", "end-call"}

Handled(types) == recorded /\ lastEv.type \in types

RegistryUnchanged ==
    /\ users = pre.users
    /\ sockets = pre.sockets
    /\ pingIntervals = pre.pingIntervals

\* C1: call bindings are symmetric: if A's call partner is B, then B is
\* registered, in a call, and B's call partner is A.
C1_SymmetricCalls ==
    \A a \in UserIds :
        (Registered(a) /\ users[a].currentCallId # NoId) =>
            LET b == users[a].currentCallId
            IN /\ Registered(b)
               /\ users[b].isInCall
               /\ users[b].currentCallId = a

\* C2: the connection table and the peer table are inverse of each other: every
\* connection in the table maps to a registered peer whose connectionId is that
\* connection, and no two registered peers have the same connectionId.
C2_Bijection ==
    /\ \A s \in SocketIds :
          sockets[s] # NoId =>
              /\ Registered(sockets[s])
              /\ users[sockets[s]].socketId = s
    /\ \A a, b \in UserIds :
          (Registered(a) /\ Registered(b) /\ a # b) =>
              users[a].socketId # users[b].socketId

\* C3: a register of peerId P on a connection replaces P's entry, whatever
\* connection it named before, and every message relayed to a registered target
\* P is one message addressed to the connection of P's current entry, so none
\* goes to a connection P registered on earlier.
C3_ReplacedEntryIsAddressed ==
    /\ (Handled({"register"}) /\ lastEv.id # "" /\ lastEv.arg # "") =>
          /\ Registered(lastEv.id)
          /\ users[lastEv.id].socketId = lastEv.socket
    /\ (Handled(RelayIn) /\ RegisteredBefore(lastEv.id)) =>
          /\ Len(out) = 1
          /\ out[1].mode = "to"
          /\ out[1].to = pre.users[lastEv.id].socketId
          /\ out[1].to = users[lastEv.id].socketId

\* a message was relayed to a peer whose earlier connection is still open and
\* still names it in the connection table, and went to the later connection
C3_Witness ==
    /\ Handled(RelayIn)
    /\ RegisteredBefore(lastEv.id)
    /\ Len(out) = 1
    /\ out[1].ev \in {"webrtc-offer", "webrtc-answer", "ice-candidate", "call-ended"}
    /\ out[1].to = users[lastEv.id].socketId
    /\ \E c1 \in SocketIds :
          /\ c1 # users[lastEv.id].socketId
          /\ sockets[c1] = lastEv.id
          /\ conn[c1] = "open"

\* the grace timer fired for a peer that is registered and did `since` since the
\* disconnect that set the timer
GraceFired(since) ==
    /\ Handled({"grace-timer"})
    /\ lastEv.arg = since
    /\ RegisteredBefore(lastEv.id)

Broadcast(userType, userId) ==
    IF userType = "confident"
    THEN <<Msg("confident-disconnected", "all", NoSocket, userId, "")>>
    ELSE <<>>

\* C4: when the grace timer of a peer that disconnected in a call and has
\* neither re-registered nor been refreshed since fires, the peer is removed
\* and, if it is a Confidant, confident-disconnected is broadcast exactly once.
C4_RemovedWhenGraceElapses ==
    GraceFired("") =>
        /\ ~Registered(lastEv.id)
        /\ out = Broadcast(pre.users[lastEv.id].userType, lastEv.id)

\* C5: the disconnect of a connection whose peer is in a call removes nothing in
\* that step: the peer is still registered, with its entry (call binding and
\* connection) as before, and is still what a relay to it resolves.
C5_DisconnectInCallKeepsPeer ==
    (/\ Handled({"disconnect"})
     /\ lastEv.id # NoId
     /\ RegisteredBefore(lastEv.id)
     /\ pre.users[lastEv.id].isInCall) =>
        /\ Registered(lastEv.id)
        /\ users = pre.users
        /\ sockets = pre.sockets
        /\ getUser(Registry, lastEv.id) = pre.users[lastEv.id]
        /\ out = <<>>

\* a connection closed while its peer was in a call, and the peer and its
\* partner are still bound to each other
C5_Witness ==
    /\ Handled({"disconnect"})
    /\ conn[lastEv.socket] = "closed"
    /\ lastEv.id # NoId
    /\ RegisteredBefore(lastEv.id)
    /\ pre.users[lastEv.id].isInCall
    /\ Registered(lastEv.id)
    /\ users[lastEv.id].isInCall
    /\ users[lastEv.id].socketId = lastEv.socket
    /\ users[lastEv.id].currentCallId # lastEv.id
    /\ Registered(users[lastEv.id].currentCallId)
    /\ timers[lastEv.socket] # NoTimer

\* C6: the grace timer of a peer that registered again since the disconnect is
\* a no-op: it removes no peer, emits nothing, and the new registration stays.
C6_TimerAfterReconnectIsNoOp ==
    (Handled({"grace-timer"}) /\ lastEv.arg = "register") =>
        /\ RegistryUnchanged
        /\ out = <<>>

\* the timer fired for a peer that had registered again on another connection
\* and is not in a call: it is still registered
C6_Witness ==
    /\ GraceFired("register")
    /\ Registered(lastEv.id)
    /\ ~users[lastEv.id].isInCall
    /\ users[lastEv.id].socketId # lastEv.socket
    /\ out = <<>>

\* C7: a relay event from a connection that resolves to no registered peer is
\* refused without side effects: the sender alone gets an error, nothing is
\* forwarded and no peer's call state changes.
C7_UnknownSenderRefused ==
    (/\ Handled(RelayIn)
     /\ getUserBySocket([users |-> pre.users, sockets |-> pre.sockets], lastEv.socket)
            = NoUser) =>
        /\ users = pre.users
        /\ \A i \in 1..Len(out) :
              out[i].ev = "error" /\ out[i].to = lastEv.socket

\* C8: a relay event whose target is not registered yields exactly one error
\* event, to the sender's connection, and changes neither the registry nor any
\* call binding.
C8_UnknownTargetFails ==
    (Handled(RelayIn) /\ ~RegisteredBefore(lastEv.id)) =>
        /\ Len(out) = 1
        /\ out[1].ev = "error"
        /\ out[1].mode = "to"
        /\ out[1].to = lastEv.socket
        /\ RegistryUnchanged
        /\ timers = pre.timers

\* an end-call from a peer that is in a call named an unregistered target: the
\* sender got the error and is still in its call
C8_Witness ==
    /\ Handled({"end-call"})
    /\ ~RegisteredBefore(lastEv.id)
    /\ out = <<Msg("error", "to", lastEv.socket, NoId, "END_CALL_ERROR")>>
    /\ getUserBySocket(Registry, lastEv.socket) # NoUser
    /\ getUserBySocket(Registry, lastEv.socket).isInCall

\* C9: a call-response whose callerId is not registered sends one error event
\* to the responder; it is not dropped silently.
C9_CallResponseNotFound ==
    (Handled({"call-response"}) /\ mapGet(pre.connectedUsers, lastEv.id, 1) = NoEntry) =>
        /\ Len(out) = 1
        /\ out[1].ev = "error"
        /\ out[1].to = lastEv.socket

\* C10: getAvailableConfidents lists exactly the registered peers that are
\* Confidants, available and not stale, each once.
Listable(u) ==
    /\ Registered(u)
    /\ users[u].userType = "confident"
    /\ users[u].isAvailable
    /\ users[u].idle < StaleMs

C10_AvailableConfidentsExact ==
    LET list == getAvailableConfidents(Registry)
    IN /\ {list[i] : i \in 1..Len(list)} = {u \in UserIds : Listable(u)}
       /\ \A i, j \in 1..Len(list) : list[i] = list[j] => i = j

\* one Confidant is listed while another available one is left out as stale
C10_Witness ==
    LET list == getAvailableConfidents(Registry)
    IN /\ Len(list) = 1
       /\ \E u \in UserIds :
             /\ Registered(u)
             /\ users[u].userType = "confident"
             /\ users[u].isAvailable
             /\ users[u].idle >= StaleMs
             /\ u # list[1]

\* the entry of the first variant's Map that a call-request named, before the step
TargetEntry == mapGet(pre.connectedUsers, lastEv.id, 1)

CallFailed == <<Msg("call-failed", "to", lastEv.socket, NoId, "Confident non disponible")>>

\* C11: a call-request whose target is a registered Confidant with
\* available=false yields exactly one call-failed event, to the requester, no
\* event to the target, and changes no registry state.
C11_UnavailableConfidantFails ==
    (/\ Handled({"call-request"})
     /\ TargetEntry # NoEntry
     /\ TargetEntry.userType = "confident"
     /\ ~TargetEntry.isAvailable) =>
        /\ out = CallFailed
        /\ connectedUsers = pre.connectedUsers

\* a requester on one connection named an unavailable Confidant that is
\* registered on another connection, and got call-failed
C11_Witness ==
    /\ Handled({"call-request"})
    /\ TargetEntry # NoEntry
    /\ TargetEntry.userType = "confident"
    /\ ~TargetEntry.isAvailable
    /\ TargetEntry.socketId # lastEv.socket
    /\ conn[TargetEntry.socketId] = "open"
    /\ getUserIdBySocketId(connectedUsers, lastEv.socket) # NoId
    /\ out = CallFailed

\* C12: call-request forwards incoming-call only to a target that is a registered
\* Confidant with available=true; for any other target (unregistered, a User,
\* an unavailable Confidant) the sender alone receives call-failed.
C12_OnlyAvailableConfidantsAreCalled ==
    Handled({"call-request"}) =>
        IF /\ TargetEntry # NoEntry
           /\ TargetEntry.userType = "confident"
           /\ TargetEntry.isAvailable
        THEN out = <<Msg("incoming-call", "to", TargetEntry.socketId,
                         getUserIdBySocketId(pre.connectedUsers, lastEv.socket), "")>>
        ELSE out = CallFailed

\* the peer the connection of the recorded event resolved to, before the step
SenderId == pre.sockets[lastEv.socket]

SenderRegistered == SenderId # NoId /\ RegisteredBefore(SenderId)

\* C13: a webrtc-offer from a registered peer U to a registered target C sends
\* exactly one webrtc-offer, carrying the offer and U's peerId, to C's
\* connection, and leaves U and C in a call with each other.
C13_OfferBindsBoth ==
    (/\ Handled({"webrtc-offer"})
     /\ SenderRegistered
     /\ RegisteredBefore(lastEv.id)) =>
        LET U == SenderId
            C == lastEv.id
        IN /\ out = <<Msg("webrtc-offer", "to", pre.users[C].socketId, U, lastEv.arg)>>
           /\ users[U].isInCall
           /\ users[C].isInCall
           /\ users[U].currentCallId = C
           /\ users[C].currentCallId = U

\* a peer that was not in a call offered to another peer on another connection
C13_Witness ==
    /\ Handled({"webrtc-offer"})
    /\ SenderRegistered
    /\ RegisteredBefore(lastEv.id)
    /\ SenderId # lastEv.id
    /\ ~pre.users[SenderId].isInCall
    /\ ~pre.users[lastEv.id].isInCall
    /\ pre.users[lastEv.id].socketId # lastEv.socket
    /\ users[SenderId].currentCallId = lastEv.id
    /\ users[lastEv.id].currentCallId = SenderId

\* C14: an end-call from a registered peer U to a registered target C sends
\* call-ended identifying U to C's connection and leaves both U and C out of
\* any call with no partner, whatever their bindings were before.
C14_EndCallUnbindsBoth ==
    (/\ Handled({"end-call"})
     /\ SenderRegistered
     /\ RegisteredBefore(lastEv.id)) =>
        LET U == SenderId
            C == lastEv.id
        IN /\ out = <<Msg("call-ended", "to", pre.users[C].socketId, U, "")>>
           /\ ~users[U].isInCall
           /\ ~users[C].isInCall
           /\ users[U].currentCallId = NoId
           /\ users[C].currentCallId = NoId

\* a peer ended the call it was in with its partner
C14_Witness ==
    /\ Handled({"end-call"})
    /\ SenderRegistered
    /\ RegisteredBefore(lastEv.id)
    /\ SenderId # lastEv.id
    /\ pre.users[SenderId].currentCallId = lastEv.id
    /\ pre.users[lastEv.id].currentCallId = SenderId
    /\ ~users[SenderId].isInCall
    /\ ~users[lastEv.id].isInCall

\* C15: for every registered peer, isInCall is true if and only if its
\* currentCallId is set.
C15_InCallIffPartner ==
    \A p \in UserIds :
        Registered(p) => (users[p].isInCall <=> users[p].currentCallId # NoId)

\* an end-call unbound two peers that were in a call with each other
C15_Witness ==
    /\ Handled({"end-call"})
    /\ \E p, q \in UserIds :
          /\ p # q
          /\ pre.users[p].isInCall /\ pre.users[p].currentCallId = q
          /\ pre.users[q].isInCall /\ pre.users[q].currentCallId = p
          /\ Registered(p) /\ ~users[p].isInCall /\ users[p].currentCallId = NoId
          /\ Registered(q) /\ ~users[q].isInCall /\ users[q].currentCallId = NoId

\* C16: endCall of a peer that is not in a call, or not registered, changes
\* nothing, and endCall applied twice leaves the state endCall applied once
\* leaves.
C16_EndCallIdempotent ==
    \A p \in UserIds \cup {NoId} :
        /\ (getUser(Registry, p) = NoUser \/ ~users[p].isInCall) =>
              endCall(Registry, p) = Registry
        /\ endCall(endCall(Registry, p), p) = endCall(Registry, p)

\* one peer is not in a call while another is still bound to it, and a third
\* endCall would change the state
C16_Witness ==
    \E p, q \in UserIds :
        /\ Registered(p) /\ ~users[p].isInCall
        /\ Registered(q) /\ users[q].isInCall /\ users[q].currentCallId = p
        /\ endCall(Registry, p) = Registry
        /\ endCall(Registry, q) # Registry

\* the connections an emitted event reaches
Recipients(m) ==
    LET open == {s \in SocketIds : conn[s] = "open"}
    IN IF m.mode = "to" THEN {m.to} \cap open
       ELSE IF m.mode = "all" THEN open
       ELSE open \ {m.to}

\* the peers that were Confidants, available and not stale before the step
WasListable(c) ==
    /\ RegisteredBefore(c)
    /\ pre.users[c].userType = "confident"
    /\ pre.users[c].isAvailable
    /\ pre.users[c].idle < StaleMs

\* C17: when a registered Confidant C sets available=true, every registered peer
\* (on an open connection) receives confident-status-update for C with
\* isAvailable true; and a User that registers receives, alone, one
\* available-confidents snapshot that contains every other peer that is a
\* registered, available and not stale Confidant.
C17_AvailabilityIsAnnounced ==
    /\ (/\ Handled({"update-availability"})
        /\ lastEv.arg = TRUE
        /\ SenderRegistered
        /\ pre.users[SenderId].userType = "confident") =>
          \A p \in UserIds :
              (RegisteredBefore(p) /\ conn[pre.users[p].socketId] = "open") =>
                  \E i \in 1..Len(out) :
                      /\ out[i].ev = "confident-status-update"
                      /\ out[i].id = SenderId
                      /\ out[i].val = TRUE
                      /\ pre.users[p].socketId \in Recipients(out[i])
    /\ (/\ Handled({"register"})
        /\ lastEv.arg = "user"
        /\ lastEv.id # "") =>
          LET snaps == {i \in 1..Len(out) : out[i].ev = "available-confidents"}
          IN /\ Cardinality(snaps) = 1
             /\ \A i \in snaps :
                   /\ out[i].mode = "to"
                   /\ out[i].to = lastEv.socket
                   /\ \A c \in UserIds :
                         (c # lastEv.id /\ WasListable(c)) =>
                             \E k \in 1..Len(out[i].val) : out[i].val[k] = c

\* a User registered while a Confidant on another connection was available, and
\* its snapshot names that Confidant
C17_Witness ==
    /\ Handled({"register"})
    /\ lastEv.arg = "user"
    /\ lastEv.id # ""
    /\ \E c \in UserIds :
          /\ c # lastEv.id
          /\ WasListable(c)
          /\ pre.users[c].socketId # lastEv.socket
          /\ \E i \in 1..Len(out) :
                /\ out[i].ev = "available-confidents"
                /\ out[i].val = <<c>>

\* C19: update-availability from a connection whose peer is not a Confidant, or
\* that has no registered peer, fails: no peer changes, nothing is broadcast,
\* the sender alone gets one error event (a different message in each case);
\* and a peer with role User never has available=true.
C19_OnlyConfidantsSetAvailability ==
    /\ (Handled({"update-availability"}) /\ ~SenderRegistered) =>
          /\ Len(out) = 1
          /\ out[1] = AvailabilityError(lastEv.socket, "Utilisateur non trouve")
          /\ users = pre.users
    /\ (/\ Handled({"update-availability"})
        /\ SenderRegistered
        /\ pre.users[SenderId].userType # "confident") =>
          /\ Len(out) = 1
          /\ out[1] = AvailabilityError(lastEv.socket,
                         "Seuls les confidents peuvent modifier leur disponibilite")
          /\ users = pre.users
    /\ \A p \in UserIds :
          (Registered(p) /\ users[p].userType = "user") => ~users[p].isAvailable

\* a registered User asked to become available and was refused
C19_Witness ==
    /\ Handled({"update-availability"})
    /\ lastEv.arg = TRUE
    /\ SenderRegistered
    /\ pre.users[SenderId].userType = "user"
    /\ Len(out) = 1
    /\ out[1].ev = "error"
    /\ ~users[SenderId].isAvailable

\* C20: the disconnect of a connection whose peer is registered and not in a
\* call removes the peer in that step; a Confidant gets exactly one
\* confident-disconnected broadcast, a User none.
C20_DisconnectRemovesIdlePeer ==
    (/\ Handled({"disconnect"})
     /\ SenderRegistered
     /\ ~pre.users[SenderId].isInCall) =>
        /\ ~Registered(SenderId)
        /\ pre.users[SenderId].userType = "confident" =>
              out = <<Msg("confident-disconnected", "all", NoSocket, SenderId, "")>>
        /\ pre.users[SenderId].userType = "user" => out = <<>>

\* a Confidant that was not in a call disconnected while another connection was
\* open: it is gone and its disconnection was broadcast
C20_Witness ==
    /\ Handled({"disconnect"})
    /\ SenderRegistered
    /\ ~pre.users[SenderId].isInCall
    /\ pre.users[SenderId].userType = "confident"
    /\ pre.users[SenderId].socketId = lastEv.socket
    /\ ~Registered(SenderId)
    /\ Len(out) = 1
    /\ \E s \in SocketIds : conn[s] = "open"

\* C18: a register whose peerId or role is empty, missing or not a recognized
\* role (user, confident) fails: the registry is unchanged, nothing is
\* broadcast and the sender alone receives one error event.
C18_InvalidRegistrationRefused ==
    (/\ Handled({"register"})
     /\ (lastEv.id = "" \/ lastEv.arg \notin {"user", "confident"})) =>
        /\ RegistryUnchanged
        /\ Len(out) = 1
        /\ out[1].ev = "error"
        /\ out[1].mode = "to"
        /\ out[1].to = lastEv.socket

\* C21: a sweep evicts the peer it watches if that peer is stale and not in a
\* call, and the eviction is an implicit disconnect: for a Confidant,
\* confident-disconnected is broadcast.
C21_SweepEvictsAndBroadcasts ==
    (/\ Handled({"sweep"})
     /\ RegisteredBefore(lastEv.id)
     /\ pre.users[lastEv.id].idle >= StaleMs
     /\ ~pre.users[lastEv.id].isInCall) =>
        /\ ~Registered(lastEv.id)
        /\ out = Broadcast(pre.users[lastEv.id].userType, lastEv.id)

\* C22: a sweep never removes a peer that is in a call, however stale, and
\* neither does a grace timer: every peer that was in a call before the timed
\* step has the same entry after it.
C22_SweepSparesPeersInCall ==
    Handled({"sweep", "grace-timer"}) =>
        \A p \in UserIds :
            (RegisteredBefore(p) /\ pre.users[p].isInCall) => users[p] = pre.users[p]

\* the sweep of a peer that is stale and in a call ran and left it registered
C22_Witness ==
    /\ Handled({"sweep"})
    /\ RegisteredBefore(lastEv.id)
    /\ pre.users[lastEv.id].idle >= StaleMs
    /\ pre.users[lastEv.id].isInCall
    /\ Registered(lastEv.id)

\* C23: every inbound event from a registered peer refreshes that peer's
\* liveness time: after a register the registered peer, and after any other
\* event the sending peer, has been idle for no time.
C23_EveryEventRefreshes ==
    /\ (Handled({"register"}) /\ lastEv.id # "" /\ lastEv.arg # "") =>
          users[lastEv.id].idle = 0
    /\ (/\ Handled({"update-availability"} \cup RelayIn)
        /\ SenderRegistered
        /\ Registered(SenderId)) =>
          users[SenderId].idle = 0

\* C24: every successful register leaves the registered peer not available,
\* not in a call and with no call partner.
C24_RegisterStartsFresh ==
    (Handled({"register"}) /\ lastEv.id # "" /\ lastEv.arg # "") =>
        /\ Registered(lastEv.id)
        /\ ~users[lastEv.id].isAvailable
        /\ ~users[lastEv.id].isInCall
        /\ users[lastEv.id].currentCallId = NoId

\* a register replaced the entry of a peer that was available and in a call
C24_Witness ==
    /\ Handled({"register"})
    /\ lastEv.id # ""
    /\ lastEv.arg # ""
    /\ RegisteredBefore(lastEv.id)
    /\ pre.users[lastEv.id].isAvailable
    /\ pre.users[lastEv.id].isInCall
    /\ pre.users[lastEv.id].socketId # lastEv.socket
    /\ ~users[lastEv.id].isAvailable
    /\ ~users[lastEv.id].isInCall

\* C25: the disconnect of a connection that a peer P has superseded by
\* registering on another one removes nothing and broadcasts nothing: P's
\* current registration stays.
C25_SupersededDisconnectKeepsPeer ==
    (/\ Handled({"disconnect"})
     /\ SenderRegistered
     /\ pre.users[SenderId].socketId # lastEv.socket) =>
        /\ users = pre.users
        /\ out = <<>>

\* C26: an end-call from a registered peer S naming a registered target T
\* changes the call state of S and T only: every other peer's entry is unchanged.
C26_EndCallTouchesSenderAndTarget ==
    (Handled({"end-call"}) /\ SenderRegistered /\ RegisteredBefore(lastEv.id)) =>
        \A p \in UserIds :
            (p # SenderId /\ p # lastEv.id) => users[p] = pre.users[p]

\* C28: an available-confidents snapshot sent to a User that registers names no
\* Confidant whose connection is closed.
C28_NoGhostInSnapshot ==
    (Handled({"register"}) /\ lastEv.arg = "user" /\ lastEv.id # "") =>
        \A i \in 1..Len(out) :
            out[i].ev = "available-confidents" =>
                \A k \in 1..Len(out[i].val) :
                    conn[users[out[i].val[k]].socketId] = "open"

\* C29: relaying a webrtc-answer or an ice-candidate to a registered target is a
\* pure forward: one message, to the target's connection, and the registry,
\* every peer's entry and the timers are unchanged.
C29_ForwardIsPure ==
    (/\ Handled({"webrtc-answer", "ice-candidate"})
     /\ RegisteredBefore(lastEv.id)) =>
        /\ Len(out) = 1
        /\ out[1].ev = lastEv.type
        /\ out[1].mode = "to"
        /\ out[1].to = pre.users[lastEv.id].socketId
        /\ out[1].id = SenderId
        /\ out[1].val = lastEv.arg
        /\ RegistryUnchanged
        /\ timers = pre.timers

\* a registered peer that is not in a call relayed an answer to another peer on
\* another connection
C29_Witness ==
    /\ Handled({"webrtc-answer"})
    /\ SenderRegistered
    /\ RegisteredBefore(lastEv.id)
    /\ SenderId # lastEv.id
    /\ ~pre.users[SenderId].isInCall
    /\ ~pre.users[lastEv.id].isInCall
    /\ pre.users[lastEv.id].socketId # lastEv.socket
    /\ Len(out) = 1
    /\ users = pre.users

\* P is registered on a closed connection, no open connection resolves to it,
\* the grace timer of its disconnect is pending and its call binding is cleared
Orphaned(p) ==
    /\ Registered(p)
    /\ conn[users[p].socketId] = "closed"
    /\ \A s \in SocketIds : sockets[s] = p => conn[s] = "closed"
    /\ \E s \in SocketIds : timers[s] # NoTimer /\ timers[s].userId = p
    /\ ~users[p].isInCall

\* P is gone, or registered again on an open connection, or in a call again
Settled(p) ==
    \/ ~Registered(p)
    \/ conn[users[p].socketId] = "open"
    \/ users[p].isInCall

\* C27: a peer that disconnected in a call, has not reconnected and whose call
\* binding has been cleared is eventually removed from the registry (unless it
\* reconnects or is bound again), the grace timer and the sweeps firing.
C27_OrphanEventuallyRemoved ==
    \A p \in UserIds : Orphaned(p) ~> Settled(p)

====
